---- MODULE Spec2Model ----
(***************************************************************************)
(* A model of the geo-analyzer backend: the raster store, the geodesic     *)
(* geometry builders, the zonal statistics engine with its two strategies, *)
(* the four query runners and the Flask handlers that call them.           *)
(*                                                                         *)
(* Distances are whole kilometres (metres after the runners' * 1000).      *)
(* A raster is a one-pixel-high strip running east from its origin: pixel  *)
(* d occupies the kilometre [d, d+1) east of the origin.                   *)
(***************************************************************************)
EXTENDS Integers, Sequences, FiniteSets, TLC

VARIABLES
    HAS_EXACT,  \* geotiff_engine.HAS_EXACT, fixed when the module is imported
    rasters,    \* RasterStore._rasters: raster id -> RasterInfo
    disk,       \* the files of RasterStore._tmp_dir: path -> file content
    next_id,    \* the number of raster ids drawn so far (uuid4 never repeats)
    tmp_dir,    \* whether RasterStore._tmp_dir still exists
    alive,      \* FALSE once the process has exited
    loading,    \* the upload thread inside RasterStore.load: its position
    removing,   \* the unload thread inside RasterStore.remove: its position
    exiting,    \* the atexit hook inside RasterStore.cleanup_all: its position
    pc,         \* the query request thread: "idle", "running" or "done"
    req,        \* the parsed parameters of the request in progress
    results,    \* the runner's local list of QueryResult
    resp,       \* the last HTTP response of the query thread
    call,       \* a direct call of a core function: its name and arguments
    ret         \* what that call returned

vars == <<HAS_EXACT, rasters, disk, next_id, tmp_dir, alive, loading, removing,
          exiting, pc, req, results, resp, call, ret>>

(***************************************************************************)
(* Bounds of the model.                                                    *)
(***************************************************************************)
MaxLen == 2       \* longest radii / edges / points list of a request
MaxArgs == 3      \* longest such list handed to a runner called directly
MaxStats == 2     \* longest requested stat list
MaxUploads == 1   \* uploads served in one run

(***************************************************************************)
(* Program constants.                                                      *)
(***************************************************************************)
CIRCLE_PTS == 360
VALID_STATS == <<"sum", "mean", "max", "min", "count", "stdev", "median">>

Range(s) == {s[i] : i \in 1..Len(s)}
SeqsUpTo(S, n) == UNION {[1..k -> S] : k \in 0..n}

(***************************************************************************)
(* Floats.  A float is num/den, or the square root of it; den = 0 is       *)
(* not-a-number.                                                           *)
(***************************************************************************)
Float(n) == [num |-> n, den |-> 1, root |-> FALSE]
Frac(n, d) == [num |-> n, den |-> d, root |-> FALSE]
Sqrt(n, d) == [num |-> n, den |-> d, root |-> TRUE]
NaN == [num |-> 0, den |-> 0, root |-> FALSE]
IsNaN(x) == x.den = 0

(***************************************************************************)
(* sorted(xs): ascending, repeated values kept.                            *)
(***************************************************************************)
RECURSIVE Insert(_, _)
Insert(x, s) ==
    IF s = <<>> THEN <<x>>
    ELSE IF x <= Head(s) THEN <<x>> \o s
    ELSE <<Head(s)>> \o Insert(x, Tail(s))

RECURSIVE sorted(_)
sorted(xs) == IF xs = <<>> THEN <<>> ELSE Insert(Head(xs), sorted(Tail(xs)))

RECURSIVE SortSet(_)
SortSet(S) ==
    IF S = {} THEN <<>>
    ELSE LET m == CHOOSE x \in S : \A y \in S : x <= y
         IN <<m>> \o SortSet(S \ {m})

(***************************************************************************)
(* Geometry builders.  geod.fwd(lon, lat, az, dist) is the point reached   *)
(* from (lon, lat) on azimuth az after dist metres; it is kept symbolic.   *)
(* A coordinate is <<x, y>> with x the longitude of one such point and y   *)
(* the latitude of one.  Azimuths are in thousandths of a degree.          *)
(***************************************************************************)
fwd(lon, lat, az, dist) ==
    IF dist = 0 THEN <<lon, lat, 0, 0>> ELSE <<lon, lat, az, dist>>

linspace(n) == [k \in 1..n |-> ((k - 1) * 360000) \div n]

\* shapely's Polygon(shell): a ring that is not closed is closed.
Polygon(coords) ==
    [exterior |-> IF coords[1] = coords[Len(coords)] THEN coords
                  ELSE Append(coords, coords[1]),
     interiors |-> <<>>]

geodesic_circle_badclose(lon, lat, radius_m, n) ==
    LET az == linspace(n)
        coords == [k \in 1..n |-> LET p == fwd(lon, lat, az[k], radius_m)
                                  IN <<p, p>>]
    IN Polygon(Append(coords, coords[n]))

geodesic_circle(lon, lat, radius_m, n) ==
    LET az == linspace(n)
        coords == [k \in 1..n |-> LET p == fwd(lon, lat, az[k], radius_m)
                                  IN <<p, p>>]
    IN Polygon(Append(coords, coords[1]))

\* The radius of a ring built by geodesic_circle, and the half width of one
\* built by rect_from_center: the distance of the point its first x is of.
RingReach(ring) == ring[1][1][4]

\* outer.difference(inner) of two circles about one centre: the inner one
\* becomes the hole; a single point (radius 0) removes nothing, and an inner
\* circle that is not smaller leaves the empty polygon, which has no ring.
difference(outer, inner) ==
    IF RingReach(inner.exterior) = 0 THEN outer
    ELSE IF RingReach(inner.exterior) < RingReach(outer.exterior)
    THEN [exterior |-> outer.exterior, interiors |-> <<inner.exterior>>]
    ELSE [exterior |-> <<>>, interiors |-> <<>>]

geodesic_annulus(lon, lat, inner_m, outer_m, n) ==
    LET outer == geodesic_circle(lon, lat, outer_m, n)
        inner == geodesic_circle(lon, lat, inner_m, n)
    IN difference(outer, inner)

\* shapely's box(minx, miny, maxx, maxy), counter-clockwise from (maxx, miny).
box(minx, miny, maxx, maxy) ==
    Polygon(<<<<maxx, miny>>, <<maxx, maxy>>, <<minx, maxy>>, <<minx, miny>>,
              <<maxx, miny>>>>)

rect_from_center(lon, lat, half_w_m, half_h_m) ==
    LET n == fwd(lon, lat, 0, half_h_m)
        s == fwd(lon, lat, 180000, half_h_m)
        e == fwd(lon, lat, 90000, half_w_m)
        w == fwd(lon, lat, 270000, half_w_m)
    IN box(w, s, e, n)

\* shapely's mapping(geom): the GeoJSON-like dict.
mapping(geom) ==
    [type |-> "Polygon",
     coordinates |-> IF geom.exterior = <<>> THEN <<>>
                     ELSE <<geom.exterior>> \o geom.interiors]

(***************************************************************************)
(* Raster files.  A readable GeoTIFF is a record: whether its CRS is       *)
(* geographic, its nodata value ({} for None, else {v}), the point its     *)
(* strip starts at, and its rows of pixel values.  Any other content is    *)
(* one rasterio cannot open.                                               *)
(***************************************************************************)
Corrupt == [valid |-> FALSE]
EmptyFile == [valid |-> FALSE, bytes |-> 0]
GeoTiff(geographic, nodata, origin, rows) ==
    [valid |-> TRUE, geographic |-> geographic, nodata |-> nodata,
     origin |-> origin, rows |-> rows]

\* Transformer.transform on one coordinate: its image in the raster's CRS.
transform(c) == <<c[1], c[2], "native">>

RingCentre(ring) == <<ring[1][1][1], ring[1][1][2]>>

\* all_touched=True: column d is burnt in when the polygon meets [d, d+1) km.
Touched(geom, d) ==
    /\ d * 1000 <= RingReach(geom.exterior)
    /\ \A h \in 1..Len(geom.interiors) :
          (d + 1) * 1000 > RingReach(geom.interiors[h])

\* exactextract's coverage fraction of column d, which is 0 or 1 here.
Covered(geom, d) ==
    /\ (d + 1) * 1000 <= RingReach(geom.exterior)
    /\ \A h \in 1..Len(geom.interiors) :
          d * 1000 >= RingReach(geom.interiors[h])

Overlaps(ds, geom) == RingCentre(geom.exterior) = ds.origin

(***************************************************************************)
(* Aggregates over a sequence of pixel values.                             *)
(***************************************************************************)
RECURSIVE SeqSum(_)
SeqSum(s) == IF s = <<>> THEN 0 ELSE Head(s) + SeqSum(Tail(s))

RECURSIVE SeqSumSq(_)
SeqSumSq(s) == IF s = <<>> THEN 0 ELSE Head(s) * Head(s) + SeqSumSq(Tail(s))

SeqMax(s) == CHOOSE x \in Range(s) : \A y \in Range(s) : y <= x
SeqMin(s) == CHOOSE x \in Range(s) : \A y \in Range(s) : x <= y

SeqMedian(s) ==
    LET o == sorted(s)
        n == Len(s)
    IN IF n % 2 = 1 THEN Float(o[(n + 1) \div 2])
       ELSE Frac(o[n \div 2] + o[n \div 2 + 1], 2)

SelectIdx(s, Keep(_)) ==
    LET F[i \in 0..Len(s)] ==
            IF i = 0 THEN <<>>
            ELSE IF Keep(i) THEN Append(F[i - 1], s[i]) ELSE F[i - 1]
    IN F[Len(s)]

(***************************************************************************)
(* numpy.ma on the masked row arr: a sequence of [v, masked].  A reduction *)
(* of a row with no unmasked cell is numpy.ma.masked, and float(masked)    *)
(* is nan.                                                                 *)
(***************************************************************************)
Unmasked(arr) ==
    LET vs == [i \in 1..Len(arr) |-> arr[i].v]
        Keep(i) == ~arr[i].masked
    IN SelectIdx(vs, Keep)

ma_stat(arr, s) ==
    LET v == Unmasked(arr)
        n == Len(v)
    IN IF s = "sum" THEN (IF n = 0 THEN NaN ELSE Float(SeqSum(v)))
       ELSE IF s = "mean" THEN (IF n = 0 THEN NaN ELSE Frac(SeqSum(v), n))
       ELSE IF s = "max" THEN (IF n = 0 THEN NaN ELSE Float(SeqMax(v)))
       ELSE IF s = "min" THEN (IF n = 0 THEN NaN ELSE Float(SeqMin(v)))
       ELSE IF s = "count" THEN Float(n)
       ELSE IF s = "stdev"
            THEN (IF n = 0 THEN NaN
                  ELSE Sqrt(n * SeqSumSq(v) - SeqSum(v) * SeqSum(v), n * n))
       ELSE IF s = "median" THEN (IF n = 0 THEN NaN ELSE SeqMedian(v))
       ELSE NaN

(***************************************************************************)
(* exactextract.exact_extract on the values v it weights (all by 1 here):  *)
(* sum and count of no cell are 0, the other statistics are nan.           *)
(***************************************************************************)
EXACT_STATS == {"sum", "mean", "max", "min", "count", "stdev", "median"}

exact_stat(v, s) ==
    LET n == Len(v)
    IN IF s = "sum" THEN Float(SeqSum(v))
       ELSE IF s = "count" THEN Float(n)
       ELSE IF n = 0 THEN NaN
       ELSE IF s = "mean" THEN Frac(SeqSum(v), n)
       ELSE IF s = "max" THEN Float(SeqMax(v))
       ELSE IF s = "min" THEN Float(SeqMin(v))
       ELSE IF s = "stdev"
            THEN Sqrt(n * SeqSumSq(v) - SeqSum(v) * SeqSum(v), n * n)
       ELSE SeqMedian(v)

Raise(e) == [ok |-> FALSE, err |-> e, vals |-> <<>>]
Return(v) == [ok |-> TRUE, err |-> "", vals |-> v]

\* rasterio.mask.mask(ds, [geom], crop=True, filled=False, all_touched=True,
\* indexes=band): the 2-D masked array of the cropped window.
rio_mask(ds, geom, band) ==
    LET width == Len(ds.rows[1])
        last == IF RingReach(geom.exterior) \div 1000 < width - 1
                THEN RingReach(geom.exterior) \div 1000 ELSE width - 1
    IN [r \in 1..Len(ds.rows) |->
           [c \in 1..(last + 1) |->
               [v |-> ds.rows[r][c],
                masked |-> ~Touched(geom, c - 1) \/ ds.rows[r][c] \in ds.nodata]]]

compute_stats_fallback(fs, tif_path, geom, stats, band) ==
    IF tif_path \notin DOMAIN fs \/ ~fs[tif_path].valid
    THEN Raise("RasterioIOError")
    ELSE
      LET ds == fs[tif_path]
          geom_native == IF ~ds.geographic /\ geom.exterior # <<>>
                         THEN Polygon([i \in 1..Len(geom.exterior) |->
                                          transform(geom.exterior[i])])
                         ELSE geom
      IN IF geom.exterior = <<>> \/ ~Overlaps(ds, geom_native)
         THEN Raise("ValueError")
         ELSE IF band # 1 THEN Raise("IndexError")
         ELSE
           LET arr0 == rio_mask(ds, geom_native, band)[1]
               arr == IF ds.nodata # {}
                      THEN [i \in 1..Len(arr0) |->
                              [v |-> arr0[i].v,
                               masked |-> arr0[i].masked \/ arr0[i].v \in ds.nodata]]
                      ELSE arr0
           IN Return([s \in Range(stats) |-> ma_stat(arr, s)])

compute_stats_exact(fs, tif_path, geom, stats, band) ==
    IF tif_path \notin DOMAIN fs \/ ~fs[tif_path].valid
    THEN Raise("RuntimeError")
    ELSE IF \E s \in Range(stats) : s \notin EXACT_STATS
    THEN Raise("ValueError")
    ELSE
      LET ds == fs[tif_path]
          cells == IF geom.exterior # <<>> /\ Overlaps(ds, geom)
                   THEN [r \in 1..Len(ds.rows) |->
                           LET Keep(c) == /\ Covered(geom, c - 1)
                                          /\ ds.rows[r][c] \notin ds.nodata
                           IN SelectIdx(ds.rows[r], Keep)]
                   ELSE <<>>
          Flat[r \in 0..Len(cells)] ==
              IF r = 0 THEN <<>> ELSE Flat[r - 1] \o cells[r]
          row == [s \in Range(stats) |-> exact_stat(Flat[Len(cells)], s)]
      IN Return([s \in Range(stats) |-> row[s]])

\* compute_stats; has_exact is the module's HAS_EXACT and fs the file system.
compute_stats(has_exact, fs, tif_path, geom, stats, band) ==
    IF has_exact THEN compute_stats_exact(fs, tif_path, geom, stats, band)
    ELSE compute_stats_fallback(fs, tif_path, geom, stats, band)

(***************************************************************************)
(* RasterStore.                                                            *)
(***************************************************************************)
RasterInfo(path, ds) ==
    [path |-> path, geographic |-> ds.geographic, nodata |-> ds.nodata]

Put(f, k, v) == [x \in DOMAIN f \cup {k} |-> IF x = k THEN v ELSE f[x]]
Drop(f, k) == [x \in DOMAIN f \ {k} |-> f[x]]

\* RasterStore.load, lines 63-67: open(path, "wb") creates the file of the
\* new id, empty; it fails when the directory is gone.
load_create(fs, dir, path) ==
    IF dir THEN [raised |-> FALSE, disk |-> Put(fs, path, EmptyFile)]
    ELSE [raised |-> TRUE, disk |-> fs]

\* RasterStore.load, line 68: f.write(data) and the close of the file, which
\* fill the file the handle is of.
load_write(fs, path, data) ==
    IF path \in DOMAIN fs THEN Put(fs, path, data) ELSE fs

\* RasterStore.load, lines 70-109: rasterio opens the file that is on disk
\* and the RasterInfo is built from its headers.
load_open(fs, path) ==
    IF path \notin DOMAIN fs \/ ~fs[path].valid
    THEN [raised |-> TRUE, info |-> {}]
    ELSE [raised |-> FALSE, info |-> {RasterInfo(path, fs[path])}]

\* RasterStore.load, line 111.
load_register(store, raster_id, info) == Put(store, raster_id, info)

\* RasterStore.get: {} for None.
store_get(store, raster_id) ==
    IF raster_id \in DOMAIN store THEN {store[raster_id]} ELSE {}

\* RasterStore.remove, line 118: self._rasters.pop(raster_id, None).
remove_pop(store, raster_id) ==
    IF raster_id \in DOMAIN store
    THEN [rasters |-> Drop(store, raster_id), info |-> {store[raster_id]}]
    ELSE [rasters |-> store, info |-> {}]

\* os.path.exists, and os.unlink with its OSError passed over.
path_exists(fs, path) == path \in DOMAIN fs
unlink(fs, path) == IF path \in DOMAIN fs THEN Drop(fs, path) ELSE fs

\* RasterStore.cleanup_all, line 126: list(self._rasters.keys()), in the
\* order the ids were registered.
keys(store) == SortSet(DOMAIN store)

\* os.rmdir with its OSError passed over: whether the directory is still
\* there; it fails on a directory that holds a file.
rmdir(fs, dir) == dir /\ DOMAIN fs # {}

(***************************************************************************)
(* Query runners: one iteration of each runner's loop.  An iteration       *)
(* either raises or yields the QueryResult it appends.  A label is the     *)
(* tuple of the pieces of its f-string ("--" is the en dash, "x" the       *)
(* multiplication sign).                                                   *)
(***************************************************************************)
QueryResult(label, geometry_geojson, stats) ==
    [label |-> label, geometry_geojson |-> geometry_geojson, stats |-> stats]

Raised(e) == [ok |-> FALSE, err |-> e, result |-> <<>>]
Yield(r) == [ok |-> TRUE, err |-> "", result |-> r]

circle_radii_unsorted(radii_km) == radii_km

\* run_circle_query: the radii in the order the loop visits them.
circle_radii(radii_km) == sorted(radii_km)

run_circle_iter(has_exact, fs, tif_path, lon, lat, r, stats, band) ==
    LET circ == geodesic_circle(lon, lat, r * 1000, CIRCLE_PTS)
        vals == compute_stats(has_exact, fs, tif_path, circ, stats, band)
    IN IF ~vals.ok THEN Raised(vals.err)
       ELSE Yield(QueryResult(<<r, " km">>, mapping(circ), vals.vals))

band_edges_nodedup(edges_km) == sorted(edges_km)

\* run_band_query: sorted(set(edges_km)).
band_edges(edges_km) == SortSet(Range(edges_km))

run_band_iter(has_exact, fs, tif_path, lon, lat, inner, outer, stats, band) ==
    LET ring == geodesic_annulus(lon, lat, inner * 1000, outer * 1000, CIRCLE_PTS)
        vals == compute_stats(has_exact, fs, tif_path, ring, stats, band)
    IN IF ~vals.ok THEN Raised(vals.err)
       ELSE Yield(QueryResult(<<inner, "--", outer, " km">>, mapping(ring),
                              vals.vals))

run_rect_iter(has_exact, fs, tif_path, lon, lat, half_w_km, half_h_km, stats, band) ==
    LET rect == rect_from_center(lon, lat, half_w_km * 1000, half_h_km * 1000)
        vals == compute_stats(has_exact, fs, tif_path, rect, stats, band)
    IN IF ~vals.ok THEN Raised(vals.err)
       ELSE Yield(QueryResult(<<half_w_km * 2, "x", half_h_km * 2, " km">>,
                              mapping(rect), vals.vals))

WithPoint_swapped(vals, pt) ==
    [k \in DOMAIN vals \cup {"_lat", "_lon"} |->
        IF k = "_lat" THEN Float(pt.lon)
        ELSE IF k = "_lon" THEN Float(pt.lat)
        ELSE vals[k]]

\* {**vals, "_lat": pt["lat"], "_lon": pt["lon"]}
WithPoint(vals, pt) ==
    [k \in DOMAIN vals \cup {"_lat", "_lon"} |->
        IF k = "_lat" THEN Float(pt.lat)
        ELSE IF k = "_lon" THEN Float(pt.lon)
        ELSE vals[k]]

run_compare_iter(has_exact, fs, tif_path, pt, radius_km, stats, band) ==
    LET circ == geodesic_circle(pt.lon, pt.lat, radius_km * 1000, CIRCLE_PTS)
        vals == compute_stats(has_exact, fs, tif_path, circ, stats, band)
    IN IF ~vals.ok THEN Raised(vals.err)
       ELSE Yield(QueryResult(pt.name, mapping(circ), WithPoint(vals.vals, pt)))

(***************************************************************************)
(* The Flask handlers.                                                     *)
(***************************************************************************)
\* An optional key of a JSON body: <<>> when absent, <<v>> when present.
Absent == <<>>
Given(v) == <<v>>

filter_stats_keepall(stats) == IF stats = <<>> THEN <<"sum">> ELSE stats

\* stats = [s for s in stats if s in VALID_STATS], ["sum"] when none is left.
filter_stats(stats) ==
    LET Keep(i) == stats[i] \in Range(VALID_STATS)
        kept == SelectIdx(stats, Keep)
    IN IF kept = <<>> THEN <<"sum">> ELSE kept

\* _parse_query_params: raster id 0 stands for a missing or empty raster_id.
parse_query_params(store, data) ==
    IF data.raster_id = 0
    THEN [ok |-> FALSE, err |-> "Missing raster_id"]
    ELSE IF store_get(store, data.raster_id) = {}
    THEN [ok |-> FALSE, err |-> "Raster not found. Upload first."]
    ELSE [ok |-> TRUE, err |-> "",
          info |-> CHOOSE i \in store_get(store, data.raster_id) : TRUE,
          stats |-> filter_stats(IF data.stats = Absent THEN <<"sum">>
                                 ELSE data.stats[1]),
          band |-> data.band]

BadRequest(e) == [status |-> 400, error |-> e, results |-> <<>>]
QueryFailed_swallowed(e, partial) ==
    [status |-> 200, error |-> "", results |-> partial]

\* except Exception as e: the 500 response; the runner's partial list is lost.
QueryFailed(e, partial) == [status |-> 500, error |-> e, results |-> <<>>]
Ok(rs) == [status |-> 200, error |-> "", results |-> rs]
NoResponse == [status |-> 0, error |-> "", results |-> <<>>]

(***************************************************************************)
(* The inputs the model draws from.  The rasters start at (0, 0); latitude *)
(* 50 is far from them.  A request varies its stat list or its shapes, the *)
(* other being the plain one: the code never relates the two.              *)
(***************************************************************************)
Kms == {0, 1, 2}                \* radii, edges and half sizes, in km
ReqNames == {"mean", "bogus"}
PointSet == {[name |-> "a", lat |-> 0, lon |-> 0],
             [name |-> "b", lat |-> 50, lon |-> 0]}
TiffA == GeoTiff(TRUE, {0}, <<0, 0>>, <<<<3, 0, 5>>>>)
TiffB == GeoTiff(FALSE, {}, <<0, 0>>, <<<<1, 2, 4>>, <<7, 8, 9>>>>)
TiffC == GeoTiff(TRUE, {0}, <<0, 0>>, <<<<0, 0, 0>>>>)
RasterFiles == {Corrupt, TiffA}
RasterIds == 0..MaxUploads
StatLists == SeqsUpTo(ReqNames, MaxStats)
KmLists == SeqsUpTo(Kms \ {0}, MaxLen)
PointLists == SeqsUpTo(PointSet, MaxLen)
ArgKmLists == SeqsUpTo(Kms, MaxArgs)
ArgPointLists == SeqsUpTo(PointSet, MaxArgs)

Join(a, b) ==
    [k \in DOMAIN a \cup DOMAIN b |-> IF k \in DOMAIN a THEN a[k] ELSE b[k]]

\* The bodies that vary the stat list, and those that keep the default.
Varied == [raster_id : RasterIds, stats : {Given(l) : l \in StatLists},
           band : {1}, lon : {0}, lat : {0}]
Plain == [raster_id : RasterIds, stats : {Absent}, band : {1}, lon : {0},
          lat : {0}]

CircleRequests ==
    {Join(c, [radii_km |-> <<1>>]) : c \in Varied}
    \cup {Join(c, [radii_km |-> l]) : c \in Plain, l \in {<<>>, <<2, 1>>}}
BandRequests ==
    {Join(c, [edges_km |-> <<1, 0>>]) : c \in Varied}
    \cup {Join(c, [edges_km |-> l]) : c \in Plain, l \in KmLists}
RectRequests ==
    {Join(c, [half_w_km |-> 1, half_h_km |-> 1]) : c \in Varied}
    \cup {Join(c, [half_w_km |-> w, half_h_km |-> 1]) : c \in Plain, w \in Kms}
CompareRequests ==
    {Join(c, [radius_km |-> 1, points |-> <<p>>]) :
        c \in Varied, p \in {q \in PointSet : q.name = "a"}}
    \cup {Join(c, [radius_km |-> 1, points |-> l]) :
             c \in Plain, l \in PointLists}

(***************************************************************************)
(* Initial state: the module is imported and the store is empty.           *)
(***************************************************************************)
NoCall == [fn |-> "none", done |-> TRUE]
Idle == [at |-> "idle"]

ServerInit ==
    /\ HAS_EXACT \in BOOLEAN
    /\ rasters = <<>>
    /\ disk = <<>>
    /\ next_id = 0
    /\ tmp_dir = TRUE
    /\ alive = TRUE
    /\ loading = Idle
    /\ removing = Idle
    /\ exiting = Idle
    /\ pc = "idle"
    /\ req = [kind |-> "none"]
    /\ results = <<>>
    /\ resp = NoResponse

Init == ServerInit /\ call = NoCall /\ ret = <<>>

query_vars == <<pc, req, results, resp>>
store_vars == <<rasters, disk, next_id, tmp_dir, loading, removing, exiting>>

(***************************************************************************)
(* upload_raster, unload_raster and the atexit hook, each on its thread.   *)
(* RasterStore takes no lock and every file operation releases the         *)
(* interpreter lock, so each dictionary operation and each system call is  *)
(* a step of its own, with the other threads free to run in between.       *)
(***************************************************************************)
\* upload_raster up to the creation of the file (RasterStore.load, 63-67).
upload_raster(data) ==
    /\ alive
    /\ loading = Idle
    /\ next_id < MaxUploads
    /\ LET out == load_create(disk, tmp_dir, next_id + 1)
       IN /\ disk' = out.disk
          /\ loading' = IF out.raised THEN Idle
                        ELSE [at |-> "created", raster_id |-> next_id + 1,
                              data |-> data]
    /\ next_id' = next_id + 1
    /\ UNCHANGED <<HAS_EXACT, rasters, tmp_dir, alive, removing, exiting,
                   query_vars, call, ret>>

\* f.write(data) and the end of the with block (68).
upload_write ==
    /\ alive
    /\ loading.at = "created"
    /\ disk' = load_write(disk, loading.raster_id, loading.data)
    /\ loading' = [at |-> "written", raster_id |-> loading.raster_id]
    /\ UNCHANGED <<HAS_EXACT, rasters, next_id, tmp_dir, alive, removing, exiting,
                   query_vars, call, ret>>

\* rasterio.open and the header reads (70-109); a failure is the handler's
\* 400 response.
upload_open ==
    /\ alive
    /\ loading.at = "written"
    /\ LET out == load_open(disk, loading.raster_id)
       IN loading' = IF out.raised THEN Idle
                     ELSE [at |-> "opened", raster_id |-> loading.raster_id,
                           info |-> CHOOSE i \in out.info : TRUE]
    /\ UNCHANGED <<HAS_EXACT, rasters, disk, next_id, tmp_dir, alive, removing,
                   exiting, query_vars, call, ret>>

\* self._rasters[raster_id] = info (111) and the 200 response.
upload_register ==
    /\ alive
    /\ loading.at = "opened"
    /\ rasters' = load_register(rasters, loading.raster_id, loading.info)
    /\ loading' = Idle
    /\ UNCHANGED <<HAS_EXACT, disk, next_id, tmp_dir, alive, removing, exiting,
                   query_vars, call, ret>>

\* unload_raster up to the pop of the entry (RasterStore.remove, 118).
unload_raster(raster_id) ==
    /\ alive
    /\ removing = Idle
    /\ LET out == remove_pop(rasters, raster_id)
       IN /\ rasters' = out.rasters
          /\ removing' = IF out.info = {} THEN Idle
                         ELSE [at |-> "popped",
                               info |-> CHOOSE i \in out.info : TRUE]
    /\ UNCHANGED <<HAS_EXACT, disk, next_id, tmp_dir, alive, loading, exiting,
                   query_vars, call, ret>>

\* os.path.exists(info.path) (119).
unload_exists ==
    /\ alive
    /\ removing.at = "popped"
    /\ removing' = IF path_exists(disk, removing.info.path)
                   THEN [removing EXCEPT !.at = "exists"] ELSE Idle
    /\ UNCHANGED <<HAS_EXACT, rasters, disk, next_id, tmp_dir, alive, loading,
                   exiting, query_vars, call, ret>>

\* os.unlink(info.path) (120-123).
unload_unlink ==
    /\ alive
    /\ removing.at = "exists"
    /\ disk' = unlink(disk, removing.info.path)
    /\ removing' = Idle
    /\ UNCHANGED <<HAS_EXACT, rasters, next_id, tmp_dir, alive, loading, exiting,
                   query_vars, call, ret>>

\* The atexit hook starts: cleanup_all takes its list of ids (126).  The
\* request threads are daemon threads and run on while the hook runs.
cleanup_all ==
    /\ alive
    /\ exiting = Idle
    /\ exiting' = [at |-> "loop", rids |-> keys(rasters)]
    /\ UNCHANGED <<HAS_EXACT, rasters, disk, next_id, tmp_dir, alive, loading,
                   removing, query_vars, call, ret>>

\* self.remove(rid) of the loop (127), up to its pop.
cleanup_pop ==
    /\ alive
    /\ exiting.at = "loop"
    /\ exiting.rids # <<>>
    /\ LET out == remove_pop(rasters, Head(exiting.rids))
       IN /\ rasters' = out.rasters
          /\ exiting' = IF out.info = {}
                        THEN [at |-> "loop", rids |-> Tail(exiting.rids)]
                        ELSE [at |-> "popped", rids |-> Tail(exiting.rids),
                              info |-> CHOOSE i \in out.info : TRUE]
    /\ UNCHANGED <<HAS_EXACT, disk, next_id, tmp_dir, alive, loading, removing,
                   query_vars, call, ret>>

cleanup_exists ==
    /\ alive
    /\ exiting.at = "popped"
    /\ exiting' = IF path_exists(disk, exiting.info.path)
                  THEN [exiting EXCEPT !.at = "exists"]
                  ELSE [at |-> "loop", rids |-> exiting.rids]
    /\ UNCHANGED <<HAS_EXACT, rasters, disk, next_id, tmp_dir, alive, loading,
                   removing, query_vars, call, ret>>

cleanup_unlink ==
    /\ alive
    /\ exiting.at = "exists"
    /\ disk' = unlink(disk, exiting.info.path)
    /\ exiting' = [at |-> "loop", rids |-> exiting.rids]
    /\ UNCHANGED <<HAS_EXACT, rasters, next_id, tmp_dir, alive, loading, removing,
                   query_vars, call, ret>>

\* os.rmdir(self._tmp_dir) (128-131), which ends the hook.
cleanup_rmdir ==
    /\ alive
    /\ exiting.at = "loop"
    /\ exiting.rids = <<>>
    /\ tmp_dir' = rmdir(disk, tmp_dir)
    /\ exiting' = [at |-> "done"]
    /\ UNCHANGED <<HAS_EXACT, rasters, disk, next_id, alive, loading, removing,
                   query_vars, call, ret>>

\* The process ends once its exit hooks have run, and its threads with it.
exit ==
    /\ alive
    /\ exiting.at = "done"
    /\ alive' = FALSE
    /\ UNCHANGED <<HAS_EXACT, store_vars, query_vars, call, ret>>

(***************************************************************************)
(* The query handlers: the first try block of each parses the request.     *)
(***************************************************************************)
Begin(kind, data, p, bad) ==
    /\ alive
    /\ pc = "idle"
    /\ results' = <<>>
    /\ IF ~p.ok \/ bad # ""
       THEN /\ pc' = "done"
            /\ req' = [kind |-> kind, data |-> data]
            /\ resp' = BadRequest(IF ~p.ok THEN p.err ELSE bad)
       ELSE /\ pc' = "running"
            /\ req' = [kind |-> kind, data |-> data, info |-> p.info,
                       stats |-> p.stats, band |-> p.band]
            /\ resp' = NoResponse
    /\ UNCHANGED <<HAS_EXACT, store_vars, alive, call, ret>>

query_circle(data) ==
    Begin("circle", data, parse_query_params(rasters, data),
          IF data.radii_km = <<>> THEN "No radii provided" ELSE "")

query_band(data) ==
    Begin("band", data, parse_query_params(rasters, data),
          IF Len(data.edges_km) < 2 THEN "Need at least 2 edges" ELSE "")

query_rect(data) ==
    Begin("rect", data, parse_query_params(rasters, data), "")

query_compare(data) ==
    Begin("compare", data, parse_query_params(rasters, data), "")

(***************************************************************************)
(* The second try block: the runner, one loop iteration at a time, and     *)
(* the response.                                                           *)
(***************************************************************************)
NShapes(r) ==
    IF r.kind = "circle" THEN Len(circle_radii(r.data.radii_km))
    ELSE IF r.kind = "band" THEN
        (IF Len(band_edges(r.data.edges_km)) = 0 THEN 0
         ELSE Len(band_edges(r.data.edges_km)) - 1)
    ELSE IF r.kind = "rect" THEN 1
    ELSE Len(r.data.points)

Iterate(kind, out) ==
    /\ alive
    /\ pc = "running"
    /\ req.kind = kind
    /\ Len(results) < NShapes(req)
    /\ IF out.ok
       THEN /\ results' = Append(results, out.result)
            /\ UNCHANGED <<pc, resp>>
       ELSE /\ results' = <<>>
            /\ pc' = "done"
            /\ resp' = QueryFailed(out.err, results)
    /\ UNCHANGED <<HAS_EXACT, store_vars, alive, req, call, ret>>

run_circle_query ==
    Iterate("circle",
            run_circle_iter(HAS_EXACT, disk, req.info.path, req.data.lon,
                            req.data.lat,
                            circle_radii(req.data.radii_km)[Len(results) + 1],
                            req.stats, req.band))

run_band_query ==
    Iterate("band",
            LET edges == band_edges(req.data.edges_km)
                i == Len(results) + 1
            IN run_band_iter(HAS_EXACT, disk, req.info.path, req.data.lon,
                             req.data.lat, edges[i], edges[i + 1],
                             req.stats, req.band))

run_rect_query ==
    Iterate("rect",
            run_rect_iter(HAS_EXACT, disk, req.info.path, req.data.lon,
                          req.data.lat, req.data.half_w_km, req.data.half_h_km,
                          req.stats, req.band))

run_compare_query ==
    Iterate("compare",
            run_compare_iter(HAS_EXACT, disk, req.info.path,
                             req.data.points[Len(results) + 1],
                             req.data.radius_km, req.stats, req.band))

Respond ==
    /\ alive
    /\ pc = "running"
    /\ Len(results) = NShapes(req)
    /\ pc' = "done"
    /\ resp' = Ok(results)
    /\ results' = <<>>
    /\ UNCHANGED <<HAS_EXACT, store_vars, alive, req, call, ret>>

Next ==
    \/ \E data \in RasterFiles : upload_raster(data)
    \/ upload_write
    \/ upload_open
    \/ upload_register
    \/ \E raster_id \in 1..MaxUploads : unload_raster(raster_id)
    \/ unload_exists
    \/ unload_unlink
    \/ cleanup_all
    \/ cleanup_pop
    \/ cleanup_exists
    \/ cleanup_unlink
    \/ cleanup_rmdir
    \/ exit
    \/ \E data \in CircleRequests : query_circle(data)
    \/ \E data \in BandRequests : query_band(data)
    \/ \E data \in RectRequests : query_rect(data)
    \/ \E data \in CompareRequests : query_compare(data)
    \/ run_circle_query
    \/ run_band_query
    \/ run_rect_query
    \/ run_compare_query
    \/ Respond

Spec == Init /\ [][Next]_vars

(***************************************************************************)
(* A runner called directly on a file system that does not change: the     *)
(* call's arguments are drawn as it starts.  Path 4 is no file.            *)
(***************************************************************************)
LocalFiles == <<TiffA, TiffB, TiffC>>
LocalPaths == {1, 2, 3, 4}
PathInfo(p) ==
    IF p \in DOMAIN LocalFiles THEN RasterInfo(p, LocalFiles[p])
    ELSE [path |-> p]

RunArgs ==
    [info : {PathInfo(p) : p \in LocalPaths}, stats : {<<"sum">>}, band : {1},
     lon : {0}, lat : {0, 50}]
    \cup [info : {PathInfo(1)}, stats : StatLists, band : {1}, lon : {0},
          lat : {0}]

RunCall(kind, a, shape) ==
    [kind |-> kind, data |-> Join([lon |-> a.lon, lat |-> a.lat], shape),
     info |-> a.info, stats |-> a.stats, band |-> a.band]

RunCalls ==
    {RunCall("circle", a, [radii_km |-> l]) : a \in RunArgs, l \in ArgKmLists}
    \cup {RunCall("band", a, [edges_km |-> l]) :
             a \in RunArgs, l \in ArgKmLists}
    \cup {RunCall("rect", a, [half_w_km |-> w, half_h_km |-> h]) :
             a \in RunArgs, w \in Kms, h \in Kms}
    \cup {RunCall("compare", a, [radius_km |-> r, points |-> l]) :
             a \in RunArgs, r \in Kms \ {0}, l \in ArgPointLists}

RunInit ==
    /\ HAS_EXACT \in BOOLEAN
    /\ rasters = <<>>
    /\ disk = LocalFiles
    /\ next_id = 0
    /\ tmp_dir = TRUE
    /\ alive = TRUE
    /\ loading = Idle
    /\ removing = Idle
    /\ exiting = Idle
    /\ pc = "running"
    /\ req \in RunCalls
    /\ results = <<>>
    /\ resp = NoResponse
    /\ call = NoCall
    /\ ret = <<>>

RunNext ==
    \/ run_circle_query
    \/ run_band_query
    \/ run_rect_query
    \/ run_compare_query
    \/ Respond

SpecRun == RunInit /\ [][RunNext]_vars

(***************************************************************************)
(* A geometry builder or compute_stats called directly.                    *)
(***************************************************************************)
NPts == {3, 4, CIRCLE_PTS}
Metres == {k * 1000 : k \in Kms}
AllNames == Range(VALID_STATS) \cup {"bogus"}

\* The polygons handed to compute_stats, on few vertices.
Shapes ==
    {geodesic_circle(0, lat, r, 4) : lat \in {0, 50}, r \in Metres \cup {3000}}
    \cup {geodesic_annulus(0, 0, p[1], p[2], 4) :
             p \in {q \in Metres \X (Metres \cup {3000}) : q[1] < q[2]}}
    \cup {rect_from_center(0, 0, w, 1000) : w \in Metres}

FnCalls ==
    [fn : {"geodesic_circle"}, lon : {0}, lat : {0, 50}, radius_m : Metres,
     n : NPts, done : {FALSE}]
    \cup {c \in [fn : {"geodesic_annulus"}, lon : {0}, lat : {0, 50},
                 inner_m : Metres, outer_m : Metres, n : NPts, done : {FALSE}] :
             c.inner_m < c.outer_m}
    \cup [fn : {"rect_from_center"}, lon : {0}, lat : {0, 50},
          half_w_m : Metres, half_h_m : Metres, done : {FALSE}]
    \cup [fn : {"compute_stats"}, tif_path : LocalPaths,
          geom : Shapes, stats : SeqsUpTo(AllNames, MaxStats), band : {1, 2},
          done : {FALSE}]

FnInit ==
    /\ ServerInit
    /\ call \in FnCalls
    /\ ret = <<>>

Returns(fn, value) ==
    /\ call.fn = fn
    /\ ~call.done
    /\ call' = [call EXCEPT !.done = TRUE]
    /\ ret' = value
    /\ UNCHANGED <<HAS_EXACT, store_vars, alive, query_vars>>

call_geodesic_circle ==
    Returns("geodesic_circle",
            geodesic_circle(call.lon, call.lat, call.radius_m, call.n))

call_geodesic_annulus ==
    Returns("geodesic_annulus",
            geodesic_annulus(call.lon, call.lat, call.inner_m, call.outer_m,
                             call.n))

call_rect_from_center ==
    Returns("rect_from_center",
            rect_from_center(call.lon, call.lat, call.half_w_m, call.half_h_m))

call_compute_stats ==
    Returns("compute_stats",
            compute_stats(HAS_EXACT, LocalFiles, call.tif_path, call.geom,
                          call.stats, call.band))

FnNext ==
    \/ call_geodesic_circle
    \/ call_geodesic_annulus
    \/ call_rect_from_center
    \/ call_compute_stats

SpecFn == FnInit /\ [][FnNext]_vars

(***************************************************************************)
(* Properties.                                                             *)
(***************************************************************************)
Returned(kind) == req.kind = kind /\ pc = "done" /\ resp.status = 200
Count(seq, Is(_)) == Cardinality({i \in 1..Len(seq) : Is(i)})
Rings(geojson) == geojson.coordinates

\* C1: a circle query that returns gives one result per input radius, each
\* value as often as the input holds it, in ascending order of radius; the
\* i-th geometry is the circle of the i-th radius about the query's centre.
C1_CircleSortedOnePerRadius ==
    Returned("circle") =>
        LET rs == resp.results
            radii == req.data.radii_km
            Radius(i) == rs[i].label[1]
        IN /\ Len(rs) = Len(radii)
           /\ \A i \in 1..(Len(rs) - 1) : Radius(i) <= Radius(i + 1)
           /\ \A v \in Kms :
                 LET InOut(i) == Radius(i) = v
                     InIn(i) == radii[i] = v
                 IN Count(rs, InOut) = Count(radii, InIn)
           /\ \A i \in 1..Len(rs) :
                 /\ Len(Rings(rs[i].geometry_geojson)) = 1
                 /\ RingReach(Rings(rs[i].geometry_geojson)[1]) = Radius(i) * 1000
                 /\ RingCentre(Rings(rs[i].geometry_geojson)[1])
                       = <<req.data.lon, req.data.lat>>

\* A circle query returned for radii given out of order, one of them twice.
C1_Witness ==
    /\ Returned("circle")
    /\ req.data.radii_km = <<2, 1, 2>>
    /\ Len(resp.results) = 3

\* C2: a band query on edges with N >= 2 distinct values that returns gives
\* N-1 results; the i-th is the annulus from the i-th to the (i+1)-th smallest
\* distinct edge, so each band starts where the one before ends, the first
\* starts at the least edge and the last ends at the greatest.
C2_BandsPartitionRange ==
    (Returned("band") /\ Cardinality(Range(req.data.edges_km)) >= 2) =>
        LET rs == resp.results
            D == Range(req.data.edges_km)
            N == Cardinality(D)
            Inner(i) == rs[i].label[1]
            Outer(i) == rs[i].label[3]
        IN /\ Len(rs) = N - 1
           /\ \A i \in 1..Len(rs) :
                 /\ Inner(i) \in D /\ Outer(i) \in D
                 /\ Inner(i) < Outer(i)
                 /\ Cardinality({d \in D : d < Inner(i)}) = i - 1
                 /\ Cardinality({d \in D : d < Outer(i)}) = i
                 /\ LET rings == Rings(rs[i].geometry_geojson)
                    IN /\ rings # <<>>
                       /\ RingReach(rings[1]) = Outer(i) * 1000
                       /\ RingCentre(rings[1]) = <<req.data.lon, req.data.lat>>
                       /\ IF Inner(i) = 0 THEN Len(rings) = 1
                          ELSE /\ Len(rings) = 2
                               /\ RingReach(rings[2]) = Inner(i) * 1000
           /\ \A i \in 1..(Len(rs) - 1) : Outer(i) = Inner(i + 1)
           /\ \A d \in D : Inner(1) <= d /\ d <= Outer(Len(rs))

\* A band query returned two bands for three distinct edges given out of
\* order; and one returned for edges that repeat a value.
C2_Witness ==
    /\ Returned("band")
    /\ req.data.edges_km \in {<<2, 0, 1>>, <<1, 2, 1>>}
    /\ Len(resp.results) = Cardinality(Range(req.data.edges_km)) - 1

\* C4: a compare query that returns gives one result per input point, in
\* input order: the i-th label is the i-th point's name, its stats hold _lat
\* and _lon equal to that point's lat and lon, and its circle is about it.
C4_CompareOrderAndPoint ==
    Returned("compare") =>
        LET rs == resp.results
            pts == req.data.points
        IN /\ Len(rs) = Len(pts)
           /\ \A i \in 1..Len(rs) :
                 /\ rs[i].label = pts[i].name
                 /\ {"_lat", "_lon"} \subseteq DOMAIN rs[i].stats
                 /\ rs[i].stats["_lat"] = Float(pts[i].lat)
                 /\ rs[i].stats["_lon"] = Float(pts[i].lon)
                 /\ RingCentre(Rings(rs[i].geometry_geojson)[1])
                       = <<pts[i].lon, pts[i].lat>>

\* A compare query returned for two different points, the second name first.
C4_Witness ==
    /\ Returned("compare")
    /\ Len(req.data.points) >= 2
    /\ req.data.points[1].name = "b"
    /\ req.data.points[2].name = "a"
    /\ resp.results[1].stats["_lat"] = Float(50)

\* C3: a band request whose edge list has fewer than 2 distinct values ends
\* in a validation error (400), never in a result list.
C3_DegenerateBandRejected ==
    (req.kind = "band" /\ pc = "done"
        /\ Cardinality(Range(req.data.edges_km)) < 2)
    => resp.status = 400

Kinds == {"circle", "band", "rect", "compare"}
Reserved == {"_lat", "_lon"}
StatKeys(r) == DOMAIN r.stats \ Reserved
Recognized(r) ==
    IF r.data.stats = Absent THEN {}
    ELSE Range(r.data.stats[1]) \cap Range(VALID_STATS)

\* C5 as claimed: the stat keys of every returned result are exactly the
\* requested names that are recognized, whatever list was requested.
C5_KeysAreRequestedRecognized ==
    (req.kind \in Kinds /\ pc = "done" /\ resp.status = 200
        /\ req.data.stats # Absent)
    => \A i \in 1..Len(resp.results) :
          StatKeys(resp.results[i]) = Recognized(req)

\* C5 as amended: the stat keys of every result a handler returns are
\* exactly the requested names that are recognized, or {sum} when the request
\* names no recognized statistic (no stats key, an empty list, or a list of
\* unrecognized names only).
C5_KeysAreRecognizedOrSum ==
    (req.kind \in Kinds /\ pc = "done" /\ resp.status = 200)
    => \A i \in 1..Len(resp.results) :
          StatKeys(resp.results[i])
              = IF Recognized(req) = {} THEN {"sum"} ELSE Recognized(req)

\* A compare query returned a result for a stat list that mixes an
\* unrecognized name with a recognized one.
C5_Witness ==
    /\ Returned("compare")
    /\ req.data.stats = Given(<<"bogus", "mean">>)
    /\ Len(resp.results) = 1
    /\ DOMAIN resp.results[1].stats = {"mean", "_lat", "_lon"}

\* C8: while a query is in progress, the file it resolved from its raster id
\* is on disk, with the content registered when the query looked it up.
C8_FileKeptDuringQuery ==
    pc = "running" =>
        /\ req.info.path \in DOMAIN disk
        /\ disk[req.info.path].valid
        /\ RasterInfo(req.info.path, disk[req.info.path]) = req.info

ExpectedShapes(r) ==
    IF r.kind = "circle" THEN Len(r.data.radii_km)
    ELSE IF r.kind = "band" THEN
        (IF r.data.edges_km = <<>> THEN 0
         ELSE Cardinality(Range(r.data.edges_km)) - 1)
    ELSE IF r.kind = "rect" THEN 1
    ELSE Len(r.data.points)

ComputeErrors == {"RasterioIOError", "RuntimeError", "ValueError", "IndexError"}

\* C9: a finished query either ended in an error response that carries the
\* error and no result list, or returned one result for every shape of the
\* query, each holding every requested statistic.
C9_ErrorsFailTheQuery ==
    (req.kind \in Kinds /\ pc = "done") =>
        \/ /\ resp.status = 400
           /\ resp.error # ""
           /\ resp.results = <<>>
        \/ /\ resp.status = 500
           /\ resp.error \in ComputeErrors
           /\ resp.results = <<>>
        \/ /\ resp.status = 200
           /\ Len(resp.results) = ExpectedShapes(req)
           /\ \A i \in 1..Len(resp.results) :
                 Range(req.stats) \subseteq DOMAIN resp.results[i].stats

\* A compare query on the fallback strategy failed on its second point, far
\* from the raster, after its first point had succeeded.
C9_Witness ==
    /\ ~HAS_EXACT
    /\ req.kind = "compare"
    /\ pc = "done"
    /\ Len(req.data.points) = 2
    /\ req.data.points[1].name = "a"
    /\ resp.status = 500
    /\ resp.error = "ValueError"

StatCall == call.fn = "compute_stats" /\ call.done
Readable == call.tif_path \in DOMAIN LocalFiles /\ call.band = 1
AllNodata(ds) ==
    \A r \in 1..Len(ds.rows) : \A c \in 1..Len(ds.rows[r]) :
        ds.rows[r][c] \in ds.nodata

\* No pixel of the raster contributes: the polygon lies away from the raster,
\* or every pixel of the raster is nodata.
ZeroPixels ==
    \/ RingCentre(call.geom.exterior) # LocalFiles[call.tif_path].origin
    \/ AllNodata(LocalFiles[call.tif_path])

\* C6: compute_stats on a polygon with no contributing pixel returns, under
\* either strategy, sum = 0, count = 0 and not-a-number for mean, stdev and
\* median.
C6_ZeroCoverageStats ==
    (StatCall /\ Readable /\ Range(call.stats) \subseteq Range(VALID_STATS)
        /\ ZeroPixels)
    => /\ ret.ok
       /\ \A s \in Range(call.stats) :
             /\ s \in {"sum", "count"} => ret.vals[s] = Float(0)
             /\ s \in {"mean", "stdev", "median"} => IsNaN(ret.vals[s])

\* C7: compute_stats on a stat list that holds an unrecognized name returns,
\* under either strategy, not-a-number for that name and, for every
\* recognized name, the value it returns when only that name is asked for.
C7_UnknownStatIsNaN ==
    (StatCall /\ Readable
        /\ RingCentre(call.geom.exterior) = LocalFiles[call.tif_path].origin
        /\ \E s \in Range(call.stats) : s \notin Range(VALID_STATS))
    => /\ ret.ok
       /\ \A s \in Range(call.stats) :
             IF s \in Range(VALID_STATS)
             THEN ret.vals[s] =
                     compute_stats(HAS_EXACT, LocalFiles, call.tif_path,
                                   call.geom, <<s>>, call.band).vals[s]
             ELSE IsNaN(ret.vals[s])

BuilderCall ==
    call.fn \in {"geodesic_circle", "geodesic_annulus", "rect_from_center"}
    /\ call.done
Closed(ring) == Len(ring) >= 2 /\ ring[1] = ring[Len(ring)]

\* C10: every ring of a polygon a builder returns is closed, and the ring of
\* geodesic_circle on n bearings is n vertices (distinct ones, for a radius
\* above 0) followed by one more coordinate, equal to the first.
C10_RingsClosed ==
    BuilderCall =>
        /\ \A k \in 1..Len(Rings(mapping(ret))) : Closed(Rings(mapping(ret))[k])
        /\ call.fn = "geodesic_circle" =>
              /\ ret.interiors = <<>>
              /\ Len(ret.exterior) = call.n + 1
              /\ ret.exterior[call.n + 1] = ret.exterior[1]
              /\ call.radius_m > 0 =>
                    \A i, j \in 1..call.n :
                        i # j => ret.exterior[i] # ret.exterior[j]

\* geodesic_annulus returned an outer ring and a hole on 360 bearings each.
C10_Witness ==
    /\ BuilderCall
    /\ call.fn = "geodesic_annulus"
    /\ call.n = CIRCLE_PTS
    /\ Len(ret.interiors) = 1
    /\ Len(ret.exterior) = CIRCLE_PTS + 1

\* The raster of a call with its pixels left as they are and its CRS taken as
\* geographic, so that the fallback masks with the query polygon itself.
GeographicTwin(ds) == [ds EXCEPT !.geographic = TRUE]
FallbackCall ==
    /\ StatCall /\ Readable /\ ~HAS_EXACT
    /\ RingCentre(call.geom.exterior) = LocalFiles[call.tif_path].origin

\* C11: in the fallback the statistics are taken over the query polygon with
\* all its rings, whether or not the raster CRS is geographic: a call returns
\* what it returns on the same pixels under a geographic CRS, so the pixels
\* inside the hole of an annulus are left out.
C11_HoleKeptInFallback ==
    FallbackCall =>
        ret = compute_stats_fallback(
                  <<GeographicTwin(LocalFiles[call.tif_path])>>, 1,
                  call.geom, call.stats, call.band)

RegisteredPaths == {rasters[r].path : r \in DOMAIN rasters}

\* No store operation is in progress on any thread.
StoreQuiet ==
    loading = Idle /\ removing = Idle /\ exiting.at \in {"idle", "done"}

\* C12: after any sequence of loads (successful or failing while the headers
\* are read), lookups, removals and the exit hook, each run to its end, a
\* backing file exists in the store's directory if and only if its raster id
\* is registered; so a load that fails leaves neither an entry nor a file.
C12_FileIffRegistered == StoreQuiet => DOMAIN disk = RegisteredPaths

====
